---- MODULE Spec2Model ----
(***************************************************************************)
(* Model of the filament monitor (filmon/monitor.py): the MonitorState      *)
(* record, the FilamentMonitor attributes, the serial queue and the three   *)
(* threads that run its handlers (main loop, control socket, GPIO           *)
(* callbacks).  The code of a handler is a function from the program's      *)
(* state to its state after one Python statement (Exec).  Under SpecThreads *)
(* a thread runs one statement per step, so that the threads interleave     *)
(* between statements, as they do under the interpreter lock; under Spec a  *)
(* handler runs to its return in one step (Run), so that handlers are       *)
(* serialised.  The code takes no lock around MonitorState; the only lock   *)
(* is _ser_lock around one serial line (monitor.py 447-449).                *)
(*                                                                          *)
(* Time is the monotonic clock in whole ticks.  Statements take no time at  *)
(* this resolution: the clock advances only while every thread blocks.      *)
(* The wall-clock fields pause_sent_ts and last_trigger_ts and the fields   *)
(* serial_connected, serial_port and baud are written or read by no         *)
(* decision of the monitor and are left out.  The configuration has         *)
(* verbose = False and breadcrumb_interval_s = 0 (heartbeat disabled), so   *)
(* _next_hb_ts is never read and is left out too.                           *)
(***************************************************************************)
EXTENDS Integers, Sequences, FiniteSets, TLC

VARIABLES
    state,      \* MonitorState (state.py 8-31)
    mon,        \* FilamentMonitor attributes (monitor.py 57-126); ser_lock = the
                \* thread that holds _ser_lock ("": none), ser_partial = what was
                \* written to self._ser since the last newline
    serial_q,   \* self._serial_q: lines read from the printer, not yet handled
    ser_out,    \* lines written to the serial link, oldest first
    now,        \* monotonic clock
    pc,         \* per thread: [at |-> label, i |-> index in a block]
    frame,      \* per thread: the handler in progress and its locals
    env,        \* line levels, serial reader, scheduling mode, input budget; the
                \* supervisor of cli.main: sup = where it is, stop = its stop event,
                \* exit_code, log = the events the reader and the supervisor emit,
                \* sig_at = whether the reader was running when the signal came
    hist        \* history: latches = latch transitions so far; armAt = instant at
                \* which the arm in force was applied (0: none since the last
                \* reset); armUsed = an arm or rearm was applied at some time;
                \* where env.trace asks for it, stalls = the thresholds
                \* (positions in _stall_thresholds_s) of the stall events since
                \* the arm in force was applied, and run = those since
                \* _stall_next_idx was last set to 0

vars == <<state, mon, serial_q, ser_out, now, pc, frame, env, hist>>

-----------------------------------------------------------------------------
(* Bounds of the model *)

MaxTime == 4
MaxPulses == 2
MaxQueue == 1
MaxLatches == 2
MaxThreadInputs == 2
MaxStopInputs == 3
MaxLiveInputs == 2
MaxPanelInputs == 5
MaxBacklog == 2
MaxRaceInputs == 3

(* Configuration (constructor arguments), in ticks *)

jam_timeout_s == 2
runout_debounce_s == 1
rearm_button_debounce_s == 1
rearm_button_long_press_s == 2
pulse_window_s == 2
stall_thresholds_s == <<1, 2>>
\* --stall-thresholds 0,1: both thresholds are crossed before the jam timeout.
stall_thresholds_early == <<0, 1>>
\* What the command line passes on for the post-arm grace and the adaptive
\* timeout (cli.py); the constructor of FilamentMonitor takes none of them and
\* _maybe_jam reads none of them.
arm_grace_s == 3
arm_grace_pulses == 1
jam_timeout_min_s == 1
jam_timeout_max_s == 3
jam_timeout_k == 4
jam_timeout_pps_floor == 1

pause_gcode == "M600"

(* constants.py *)

CONTROL_ENABLE == "filmon:enable"
CONTROL_DISABLE == "filmon:disable"
CONTROL_RESET == "filmon:reset"
CONTROL_ARM == "filmon:arm"
CONTROL_UNARM == "filmon:unarm"

VERSION == "1.0.4"

-----------------------------------------------------------------------------
(* Text.  A line is a sequence of words; a word is its lower-case spelling  *)
(* and whether it came in upper case.  str.lower() folds the case, and      *)
(* `marker in low` looks for the lower-case word.                           *)

Word(w, uc) == [w |-> w, uc |-> uc]

\* lower leaving the case as it is.
lower_keeps_case(line) == line

lower(line) == [k \in DOMAIN line |-> Word(line[k].w, FALSE)]

Contains(low, marker) == \E k \in DOMAIN low : low[k] = Word(marker, FALSE)

Markers == {CONTROL_ENABLE, CONTROL_DISABLE, CONTROL_RESET, CONTROL_ARM, CONTROL_UNARM}

\* Lines the printer sends: a marker echoed after other text, the reset marker
\* in upper case, and a line without a marker.
Lines ==
    {<<Word("echo", FALSE), Word(m, FALSE)>> : m \in Markers \ {CONTROL_RESET}}
        \cup {<<Word(CONTROL_RESET, TRUE)>>, <<Word("ok", FALSE)>>}

\* Lines that hold one marker, or two of them in either order (the second one
\* in upper case), and a line without a marker.
MarkerLines ==
    {<<Word(m, FALSE)>> : m \in Markers}
        \cup {<<Word(a, FALSE), Word(b, TRUE)>> : a \in Markers, b \in Markers}
        \cup {<<Word("ok", FALSE)>>}

\* Requests a client sends on the control socket ("ARM" in upper case).
Requests ==
    {Word(c, FALSE) : c \in {"rearm", "reset", "enable", "unarm", "disable", "bogus", ""}}
        \cup {Word("arm", TRUE)}

\* Requests that ask for the state ("STATE" in upper case), and a command the
\* monitor does not know, in upper case.
Queries == {Word("status", FALSE), Word("state", TRUE), Word("nonsense", TRUE)}

None == -1

Threads == {"main", "ctl", "gpio"}

-----------------------------------------------------------------------------
(* Straight-line code: one entry per statement.                             *)
(*   o = "state": self.state.<f> = v      o = "mon": self._<f> = v         *)
(*   o = "emit" : self.logger.emit(f)     o = "ser": self._send_gcode(f)   *)

W(o, f, v) == [o |-> o, f |-> f, v |-> v]

\* hcm_reset without its write of latched.
hcm_reset_keeps_latch ==
    << W("state", "enabled", "F"),
       W("state", "armed", "F"),
       W("state", "runout_asserted", "F"),
       W("state", "motion_pulses_since_reset", "0"),
       W("state", "last_pulse_ts", "now"),
       W("state", "motion_pulses_since_arm", "0"),
       W("state", "arm_ts", "0"),
       W("mon", "pulse_times", "clear"),
       W("mon", "stall_next_idx", "0"),
       W("emit", "reset", "") >>

hcm_reset ==
    << W("state", "enabled", "F"),
       W("state", "armed", "F"),
       W("state", "latched", "F"),
       W("state", "runout_asserted", "F"),
       W("state", "motion_pulses_since_reset", "0"),
       W("state", "last_pulse_ts", "now"),
       W("state", "motion_pulses_since_arm", "0"),
       W("state", "arm_ts", "0"),
       W("mon", "pulse_times", "clear"),
       W("mon", "stall_next_idx", "0"),
       W("emit", "reset", "") >>

\* hcm_disable_latched clearing the latch as well.
hcm_disable_latched_unlatches ==
    << W("state", "enabled", "F"),
       W("state", "armed", "F"),
       W("state", "latched", "F"),
       W("emit", "disabled", "") >>

hcm_disable_latched ==
    << W("state", "enabled", "F"),
       W("state", "armed", "F"),
       W("emit", "disabled", "") >>

hcm_disable ==
    << W("state", "enabled", "F"),
       W("state", "armed", "F"),
       W("emit", "disabled", "") >>

\* hcm_unarm clearing the pulse count since the arm as well.
hcm_unarm_clears_count ==
    << W("state", "enabled", "T"),
       W("state", "armed", "F"),
       W("state", "motion_pulses_since_arm", "0"),
       W("mon", "stall_next_idx", "0"),
       W("emit", "unarmed", "") >>

hcm_unarm ==
    << W("state", "enabled", "T"),
       W("state", "armed", "F"),
       W("mon", "stall_next_idx", "0"),
       W("emit", "unarmed", "") >>

hcm_arm ==
    << W("state", "enabled", "T"),
       W("state", "armed", "T"),
       W("state", "motion_pulses_since_arm", "0"),
       W("state", "arm_ts", "now"),
       W("state", "last_pulse_ts", "arm_ts"),
       W("mon", "stall_next_idx", "0"),
       W("emit", "armed", "") >>

\* hcm_enable clearing the pulse count since the reset as well.
hcm_enable_clears_count ==
    << W("state", "enabled", "T"),
       W("state", "armed", "F"),
       W("state", "last_pulse_ts", "now"),
       W("state", "motion_pulses_since_reset", "0"),
       W("mon", "stall_next_idx", "0"),
       W("emit", "enabled", "") >>

hcm_enable ==
    << W("state", "enabled", "T"),
       W("state", "armed", "F"),
       W("state", "last_pulse_ts", "now"),
       W("mon", "stall_next_idx", "0"),
       W("emit", "enabled", "") >>

\* _cmd_rearm leaving runout_asserted as it is.
_cmd_rearm_keeps_runout ==
    << W("state", "latched", "F"),
       W("state", "motion_pulses_since_reset", "0"),
       W("state", "motion_pulses_since_arm", "0"),
       W("state", "arm_ts", "now"),
       W("state", "last_pulse_ts", "now"),
       W("mon", "pulse_times", "clear"),
       W("mon", "stall_next_idx", "0"),
       W("state", "enabled", "T"),
       W("state", "armed", "T"),
       W("emit", "rearmed", "") >>

_cmd_rearm ==
    << W("state", "latched", "F"),
       W("state", "runout_asserted", "F"),
       W("state", "motion_pulses_since_reset", "0"),
       W("state", "motion_pulses_since_arm", "0"),
       W("state", "arm_ts", "now"),
       W("state", "last_pulse_ts", "now"),
       W("mon", "pulse_times", "clear"),
       W("mon", "stall_next_idx", "0"),
       W("state", "enabled", "T"),
       W("state", "armed", "T"),
       W("emit", "rearmed", "") >>

_trigger_pause ==
    << W("state", "latched", "T"),
       W("state", "last_trigger", "reason"),
       W("mon", "pulse_times", "prune"),
       W("emit", "pause_triggered", ""),
       W("ser", "M400", ""),
       W("emit", "gcode_sent", ""),
       W("ser", pause_gcode, ""),
       W("emit", "gcode_sent", "") >>

motion_count ==
    << W("mon", "pulse_times", "append"),
       W("mon", "pulse_times", "prune"),
       W("state", "motion_pulses_total", "inc"),
       W("state", "motion_pulses_since_reset", "inc") >>

motion_stamp ==
    << W("state", "last_pulse_ts", "now"),
       W("mon", "stall_next_idx", "0") >>

\* self.logger.emit("stall", ..., pps=round(self._pps(now), 3), ...): the
\* arguments are evaluated first, and _pps prunes the window.
stall_emit ==
    << W("mon", "pulse_times", "prune"),
       W("emit", "stall", "") >>

Block(name) ==
    CASE name = "hcm_reset" -> hcm_reset
      [] name = "hcm_disable_latched" -> hcm_disable_latched
      [] name = "hcm_disable" -> hcm_disable
      [] name = "hcm_unarm" -> hcm_unarm
      [] name = "hcm_arm" -> hcm_arm
      [] name = "hcm_enable" -> hcm_enable
      [] name = "_cmd_rearm" -> _cmd_rearm
      [] name = "_trigger_pause" -> _trigger_pause
      [] name = "motion_count" -> motion_count
      [] name = "motion_stamp" -> motion_stamp
      [] name = "stall_emit" -> stall_emit

BlockNames ==
    {"hcm_reset", "hcm_disable_latched", "hcm_disable", "hcm_unarm", "hcm_arm",
     "hcm_enable", "_cmd_rearm", "_trigger_pause", "motion_count", "motion_stamp",
     "stall_emit"}

-----------------------------------------------------------------------------
(* Threads, labels and frames *)

Label(l) == [at |-> l, i |-> 1]

\* Where a thread blocks: the main loop in _serial_q.get (or after its exit,
\* "done" by the loop test and "dead" by an exception that nothing caught),
\* the control loop in accept (or after its exit), the GPIO thread between edges.
RestLabels == {"get", "done", "dead", "accept", "exit", "idle"}

Rest(t) == pc[t].at \in RestLabels

AllRest == \A t \in Threads : Rest(t)

NoSnap == [void |-> TRUE]

NoReply == [void |-> TRUE]

NoFrame ==
    [op |-> "none", cmd |-> Word("", FALSE), line |-> <<>>, reason |-> "",
     dt |-> 0, send |-> 0, prune |-> 0, reply |-> NoReply, pre |-> NoSnap, ev |-> <<>>]

\* The part of the program's state that the code of a handler reads and writes.
Cur ==
    [state |-> state, mon |-> mon, serial_q |-> serial_q, ser_out |-> ser_out,
     pc |-> pc, frame |-> frame, hist |-> hist]

\* The values a handler starts from, kept while handlers are serialised (when
\* threads preempt each other they are not the values the handler works on).
Snap(S) ==
    IF env.conc THEN NoSnap
    ELSE [state |-> S.state, mon |-> S.mon, ser_out |-> S.ser_out]

\* Thread t enters a handler: what runs, its argument, the values it starts from.
Enter(S, t, op, cmd, line, at) ==
    [S EXCEPT !.frame[t] = [NoFrame EXCEPT !.op = op, !.cmd = cmd, !.line = line, !.pre = Snap(S)],
              !.pc[t] = Label(at)]

Goto(S, t, l) == [S EXCEPT !.pc[t] = Label(l)]

Emit(S, t, e) == [S EXCEPT !.frame[t].ev = Append(@, e)]

-----------------------------------------------------------------------------
(* Initial state: FilamentMonitor.__init__ and MonitorState() *)

InitState ==
    [enabled |-> FALSE, armed |-> FALSE, latched |-> FALSE, last_trigger |-> "",
     motion_pulses_total |-> 0, motion_pulses_since_reset |-> 0, last_pulse_ts |-> 0,
     motion_pulses_since_arm |-> 0, arm_ts |-> 0, runout_asserted |-> FALSE]

InitMon ==
    [pulse_times |-> <<>>, stall_thresholds_s |-> stall_thresholds_s,
     stall_next_idx |-> 0, last_runout_edge |-> 0,
     last_rearm_edge |-> 0, rearm_press_start_ts |-> None, stop_evt |-> FALSE,
     ser_lock |-> "", ser_partial |-> ""]

\* The monitor constructed with the given stall thresholds.
InitCfg(conc, budget, thresholds, trace) ==
    /\ state = InitState
    /\ mon = [InitMon EXCEPT !.stall_thresholds_s = thresholds]
    /\ serial_q = <<>>
    /\ ser_out = <<>>
    /\ now = 1
    /\ pc = [t \in Threads |->
                CASE t = "main" -> Label("get")
                  [] t = "ctl" -> Label("accept")
                  [] t = "gpio" -> Label("idle")]
    /\ frame = [t \in Threads |-> NoFrame]
    /\ env = [runout_line |-> FALSE, button_down |-> FALSE, reader |-> "readline",
              conc |-> conc, budget |-> budget,
              sup |-> "poll", stop |-> FALSE, exit_code |-> 0, log |-> <<>>,
              sig_at |-> "none", trace |-> trace, port |-> "open"]
    /\ hist = [latches |-> 0, armAt |-> 0, armUsed |-> FALSE, stalls |-> <<>>, run |-> <<>>,
               reason |-> "", edgeAt |-> 0, edgeKept |-> FALSE]

\* The configuration above, no history of the stall events.
InitWith(conc, budget) == InitCfg(conc, budget, stall_thresholds_s, FALSE)

\* Handlers run one at a time; any number of inputs.
Init == InitWith(FALSE, -1)

\* Threads preempt each other between statements; a bounded number of inputs.
InitThreads == InitWith(TRUE, MaxThreadInputs)

\* Handlers run one at a time; a bounded number of inputs.
InitStop == InitWith(FALSE, MaxStopInputs)

\* Handlers run one at a time; a bounded number of inputs.
InitPanel == InitWith(FALSE, MaxPanelInputs)

\* Handlers run one at a time; any number of inputs; both stall thresholds
\* below the jam timeout.
InitStall == InitCfg(FALSE, -1, stall_thresholds_early, TRUE)

\* Handlers run one at a time; any number of inputs; the edges of the runout
\* line are traced.
InitRunout == InitCfg(FALSE, -1, stall_thresholds_s, TRUE)

\* Threads preempt each other between statements; a bounded number of inputs.
InitRace == InitWith(TRUE, MaxRaceInputs)

\* Serialised handlers and a small number of inputs, after which all is quiet.
InitLive == InitWith(FALSE, MaxLiveInputs)

-----------------------------------------------------------------------------
(* One statement of a straight-line block *)

StateVal(S, t, w) ==
    CASE w.v = "T" -> TRUE
      [] w.v = "F" -> FALSE
      [] w.v = "0" -> 0
      [] w.v = "now" -> now
      [] w.v = "arm_ts" -> S.state.arm_ts
      [] w.v = "reason" -> S.frame[t].reason
      [] w.v = "inc" -> S.state[w.f] + 1

MonVal(S, w) ==
    CASE w.v = "0" -> 0
      [] w.v = "clear" -> <<>>
      [] w.v = "append" -> Append(S.mon.pulse_times, now)

\* Where a thread continues after the last statement of a block.
After(name) ==
    IF name = "motion_count" THEN Label("motion_armed")
    ELSE IF name = "stall_emit" THEN Label("bc_6")
    ELSE Label("ret")

Write(S, t, w) ==
    CASE w.o = "state" ->
            [S EXCEPT !.state[w.f] = StateVal(S, t, w),
                      !.hist.latches = IF w.f = "latched" /\ w.v = "T" /\ ~S.state.latched
                                       THEN @ + 1 ELSE @,
                      !.hist.reason = IF w.f = "latched" /\ w.v = "T" /\ ~S.state.latched
                                      THEN S.frame[t].reason ELSE @,
                      !.hist.edgeKept = IF w.f = "runout_asserted" THEN FALSE ELSE @]
      [] w.o = "mon" ->
            [S EXCEPT !.mon[w.f] = MonVal(S, w),
                      !.hist.run = IF w.f = "stall_next_idx" THEN <<>> ELSE @]
      [] w.o = "emit" -> Emit(S, t, w.f)

\* _send_gcode(gcode), up to its emit.  The bytes gcode + "\n" of the one
\* write call reach the port in two pieces, the text and then the newline.
\* with self._ser_lock: a thread that finds the lock taken waits.
\* SendAcquire taking no notice of the lock.
SendAcquire_unlocked(S, t) == [S EXCEPT !.mon.ser_lock = t, !.frame[t].send = 1]

SendAcquire(S, t) ==
    IF S.mon.ser_lock = "" THEN [S EXCEPT !.mon.ser_lock = t, !.frame[t].send = 1] ELSE S

\* An exception leaves the function that raised it and its callers, none of
\* which catches: a with block on the way releases the lock.  On the main loop
\* it leaves _maybe_jam or _maybe_breadcrumbs and then _loop (567-578: the try
\* covers queue.Empty only) and ends the thread; on the GPIO thread it leaves
\* the callback.
Raise(S, t) ==
    [S EXCEPT !.mon.ser_lock = IF @ = t THEN "" ELSE @,
              !.frame[t].send = 0,
              !.frame[t].prune = 0,
              !.pc[t] = Label(IF t = "main" THEN "dead" ELSE "ret")]

\* _prune_pulses(now), one step at a time (frame[t].prune is the position):
\*   0  while self._pulse_times            the deque is tested for emptiness
\*   1        and self._pulse_times[0] < cutoff     its front is read
\*   2      self._pulse_times.popleft()   the front is removed
\* Reading or removing the front of an empty deque raises IndexError.
_prune_pulses(S, t, next) ==
    IF pulse_window_s <= 0
    THEN [S EXCEPT !.mon.pulse_times = <<>>, !.pc[t] = next]
    ELSE CASE S.frame[t].prune = 0 ->
                 IF S.mon.pulse_times # <<>> THEN [S EXCEPT !.frame[t].prune = 1]
                 ELSE [S EXCEPT !.pc[t] = next]
           [] S.frame[t].prune = 1 ->
                 IF S.mon.pulse_times = <<>> THEN Raise(S, t)
                 ELSE IF Head(S.mon.pulse_times) < now - pulse_window_s
                      THEN [S EXCEPT !.frame[t].prune = 2]
                      ELSE [S EXCEPT !.frame[t].prune = 0, !.pc[t] = next]
           [] S.frame[t].prune = 2 ->
                 IF S.mon.pulse_times = <<>> THEN Raise(S, t)
                 ELSE [S EXCEPT !.mon.pulse_times = Tail(@), !.frame[t].prune = 0]

\* self._ser.write((gcode + "\n").encode()): the text; the call raises when
\* the port no longer takes writes.
SendWriteText(S, t, gcode) ==
    IF env.port = "lost" THEN Raise(S, t)
    ELSE [S EXCEPT !.mon.ser_partial = @ \o gcode, !.frame[t].send = 2]

\* ... and the newline, which ends the line on the wire
SendWriteNewline(S, t) ==
    [S EXCEPT !.ser_out = Append(@, S.mon.ser_partial), !.mon.ser_partial = "",
              !.frame[t].send = 3]

\* self._ser.flush(), and the lock is released on leaving the with block
SendRelease(S, t) ==
    [S EXCEPT !.mon.ser_lock = IF @ = t THEN "" ELSE @, !.frame[t].send = 0]

BlockStep(S, t) ==
    LET b == Block(S.pc[t].at)
        k == S.pc[t].i
        next == IF k < Len(b) THEN [at |-> S.pc[t].at, i |-> k + 1] ELSE After(S.pc[t].at)
    IN  IF b[k].o = "ser"
        THEN CASE S.frame[t].send = 0 -> SendAcquire(S, t)
               [] S.frame[t].send = 1 -> SendWriteText(S, t, b[k].f)
               [] S.frame[t].send = 2 -> SendWriteNewline(S, t)
               [] S.frame[t].send = 3 -> [SendRelease(S, t) EXCEPT !.pc[t] = next]
        ELSE IF b[k].o = "mon" /\ b[k].v = "prune"
        THEN _prune_pulses(S, t, next)
        ELSE [Write(S, t, b[k]) EXCEPT !.pc[t] = next]

-----------------------------------------------------------------------------
(* _handle_control_marker: the branch taken *)

\* hcm_branch without the latched guard.
hcm_branch_unguarded(low, latched) ==
    IF Contains(low, CONTROL_RESET) THEN "hcm_reset"
    ELSE IF Contains(low, CONTROL_DISABLE) THEN "hcm_disable"
    ELSE IF Contains(low, CONTROL_UNARM) THEN "hcm_unarm"
    ELSE IF Contains(low, CONTROL_ARM) THEN "hcm_arm"
    ELSE IF Contains(low, CONTROL_ENABLE) THEN "hcm_enable_1"
    ELSE "ret"

hcm_branch(low, latched) ==
    IF Contains(low, CONTROL_RESET) THEN "hcm_reset"
    ELSE IF latched
         THEN IF Contains(low, CONTROL_DISABLE) THEN "hcm_disable_latched" ELSE "ret"
         ELSE IF Contains(low, CONTROL_DISABLE) THEN "hcm_disable"
         ELSE IF Contains(low, CONTROL_UNARM) THEN "hcm_unarm"
         ELSE IF Contains(low, CONTROL_ARM) THEN "hcm_arm"
         ELSE IF Contains(low, CONTROL_ENABLE) THEN "hcm_enable_1"
         ELSE "ret"

\* low = line.lower(); the reset test reads no shared state, the next test
\* reads state.latched.
HandleControlMarker(S, t) ==
    LET to == hcm_branch(lower(S.frame[t].line), S.state.latched)
    IN  [Goto(S, t, to) EXCEPT
            !.hist.armAt = IF to = "hcm_arm" THEN now ELSE IF to = "hcm_reset" THEN 0 ELSE @,
            !.hist.stalls = IF to \in {"hcm_arm", "hcm_reset"} THEN <<>> ELSE @,
            !.hist.armUsed = @ \/ to = "hcm_arm"]

\* if self.state.enabled and not self.state.armed: two reads
HcmEnableReadEnabled(S, t) ==
    Goto(S, t, IF S.state.enabled THEN "hcm_enable_2" ELSE "hcm_enable")

HcmEnableReadArmed(S, t) ==
    IF ~S.state.armed THEN Goto(Emit(S, t, "enabled"), t, "ret") ELSE Goto(S, t, "hcm_enable")

-----------------------------------------------------------------------------
(* _maybe_jam and _trigger_pause *)

\* now_s() - self.state.last_pulse_ts >= self.jam_timeout_s
\* JamDue with a strict comparison.
JamDue_strict(last_pulse_ts) == now - last_pulse_ts > jam_timeout_s

JamDue(last_pulse_ts) == now - last_pulse_ts >= jam_timeout_s

Trigger(S, t, reason) == [Goto(S, t, "_trigger_pause") EXCEPT !.frame[t].reason = reason]

\* if not self.state.enabled or self.state.latched or not self.state.armed:
\* three reads, left to right.
MaybeJamReadEnabled(S, t) == Goto(S, t, IF ~S.state.enabled THEN "ret" ELSE "jam_2")

\* MaybeJamReadLatched without the test of latched.
MaybeJamReadLatched_unchecked(S, t) == Goto(S, t, "jam_3")

MaybeJamReadLatched(S, t) == Goto(S, t, IF S.state.latched THEN "ret" ELSE "jam_3")

\* MaybeJamReadArmed without the test of armed.
MaybeJamReadArmed_unchecked(S, t) == Goto(S, t, "jam_4")

MaybeJamReadArmed(S, t) == Goto(S, t, IF ~S.state.armed THEN "ret" ELSE "jam_4")

\* MaybeJamCompare latching on the level of the runout reading as well.
MaybeJamCompare_level(S, t) ==
    IF S.state.runout_asserted THEN Trigger(S, t, "runout")
    ELSE IF JamDue(S.state.last_pulse_ts) THEN Trigger(S, t, "jam")
    ELSE Goto(S, t, "ret")

MaybeJamCompare(S, t) ==
    IF JamDue(S.state.last_pulse_ts) THEN Trigger(S, t, "jam") ELSE Goto(S, t, "ret")

-----------------------------------------------------------------------------
(* _maybe_breadcrumbs (heartbeat disabled by breadcrumb_interval_s = 0) *)

\* if not (self.state.enabled and self.state.armed) or self.state.latched
BreadcrumbsReadEnabled(S, t) == Goto(S, t, IF ~S.state.enabled THEN "ret" ELSE "bc_2")

BreadcrumbsReadArmed(S, t) == Goto(S, t, IF ~S.state.armed THEN "ret" ELSE "bc_3")

\* BreadcrumbsReadLatched without the test of latched.
BreadcrumbsReadLatched_unchecked(S, t) ==
    Goto(S, t, IF S.mon.stall_thresholds_s = <<>> THEN "ret" ELSE "bc_4")

BreadcrumbsReadLatched(S, t) ==
    Goto(S, t, IF S.state.latched \/ S.mon.stall_thresholds_s = <<>> THEN "ret" ELSE "bc_4")

\* dt = now - self.state.last_pulse_ts
BreadcrumbsReadDt(S, t) ==
    [Goto(S, t, "bc_5") EXCEPT !.frame[t].dt = now - S.state.last_pulse_ts]

\* The test of the while loop: on to the emit of "stall", or out of the loop.
BreadcrumbsStall(S, t) ==
    IF /\ S.mon.stall_next_idx < Len(S.mon.stall_thresholds_s)
       /\ S.frame[t].dt >= S.mon.stall_thresholds_s[S.mon.stall_next_idx + 1]
    THEN [Goto(S, t, "stall_emit") EXCEPT
             !.hist.stalls = IF env.trace THEN Append(@, S.mon.stall_next_idx + 1) ELSE @,
             !.hist.run = IF env.trace THEN Append(@, S.mon.stall_next_idx + 1) ELSE @]
    ELSE Goto(S, t, "ret")

\* self._stall_next_idx += 1
BreadcrumbsNext(S, t) == [Goto(S, t, "bc_5") EXCEPT !.mon.stall_next_idx = @ + 1]

-----------------------------------------------------------------------------
(* _on_motion_pulse *)

MotionCheckStop(S, t) == Goto(S, t, IF S.mon.stop_evt THEN "ret" ELSE "motion_count")

\* if self.state.armed: (first-pulse breadcrumb) ; motion_pulses_since_arm += 1
MotionReadArmed(S, t) == Goto(S, t, IF S.state.armed THEN "motion_first" ELSE "motion_stamp")

MotionFirstPulse(S, t) ==
    Goto(IF S.state.motion_pulses_since_arm = 0 /\ S.state.arm_ts # 0
         THEN Emit(S, t, "first_pulse_after_arm") ELSE S,
         t, "motion_inc_arm")

MotionIncSinceArm(S, t) ==
    [Goto(S, t, "motion_stamp") EXCEPT !.state.motion_pulses_since_arm = @ + 1]

-----------------------------------------------------------------------------
(* Runout callbacks *)

\* _debounced(): not (ts - self._last_runout_edge < self.runout_debounce_s)
\* _debounced letting every edge through.
_debounced_always(last_runout_edge) == TRUE

_debounced(last_runout_edge) == ~(now - last_runout_edge < runout_debounce_s)

\* (When the run keeps a trace, the time of this edge of the line is noted.)
RunoutDebounce(S, t) ==
    LET R == IF env.trace THEN [S EXCEPT !.hist.edgeAt = now, !.hist.edgeKept = TRUE] ELSE S
    IN  IF _debounced(S.mon.last_runout_edge)
        THEN [Goto(R, t, IF S.pc[t].at = "runout_asserted" THEN "ra_set" ELSE "rc_set") EXCEPT
                 !.mon.last_runout_edge = now]
        ELSE Goto(R, t, "ret")

RunoutAssertedSet(S, t) == [Goto(S, t, "ra_armed") EXCEPT !.state.runout_asserted = TRUE]

\* RunoutAssertedReadArmed without the test of armed.
RunoutAssertedReadArmed_unchecked(S, t) == Goto(Emit(S, t, "runout_asserted"), t, "ra_enabled")

RunoutAssertedReadArmed(S, t) ==
    IF S.state.armed THEN Goto(Emit(S, t, "runout_asserted"), t, "ra_enabled")
    ELSE Goto(S, t, "ret")

RunoutAssertedReadEnabled(S, t) == Goto(S, t, IF S.state.enabled THEN "ra_latched" ELSE "ret")

RunoutAssertedReadLatched(S, t) ==
    IF ~S.state.latched THEN Trigger(S, t, "runout") ELSE Goto(S, t, "ret")

\* RunoutClearedSet clearing the latch as well.
RunoutClearedSet_unlatches(S, t) ==
    [Goto(S, t, "rc_armed") EXCEPT !.state.runout_asserted = FALSE, !.state.latched = FALSE]

RunoutClearedSet(S, t) == [Goto(S, t, "rc_armed") EXCEPT !.state.runout_asserted = FALSE]

RunoutClearedReadArmed(S, t) ==
    Goto(IF S.state.armed THEN Emit(S, t, "runout_cleared") ELSE S, t, "ret")

-----------------------------------------------------------------------------
(* Button callbacks *)

\* dur >= self.rearm_button_long_press_s
\* IsLongPress with a strict comparison.
IsLongPress_strict(dur) == dur > rearm_button_long_press_s

IsLongPress(dur) == dur >= rearm_button_long_press_s

\* _last_rearm_edge and _rearm_press_start_ts are touched by these two
\* callbacks only, so each callback's own part is one step.
\* OnRearmButtonPress without the debounce test.
OnRearmButtonPress_undebounced(S, t) ==
    IF S.mon.stop_evt
    THEN Goto(S, t, "ret")
    ELSE [Goto(S, t, "ret") EXCEPT !.mon.last_rearm_edge = now,
                                   !.mon.rearm_press_start_ts = now]

OnRearmButtonPress(S, t) ==
    IF S.mon.stop_evt \/ now - S.mon.last_rearm_edge < rearm_button_debounce_s
    THEN Goto(S, t, "ret")
    ELSE [Goto(S, t, "ret") EXCEPT !.mon.last_rearm_edge = now,
                                   !.mon.rearm_press_start_ts = now]

OnRearmButtonRelease(S, t) ==
    IF S.mon.stop_evt \/ S.mon.rearm_press_start_ts = None
    THEN Goto(S, t, "ret")
    ELSE IF IsLongPress(now - S.mon.rearm_press_start_ts)
         THEN [Goto(S, t, "_cmd_rearm") EXCEPT !.mon.rearm_press_start_ts = None,
                                               !.hist.armAt = now, !.hist.armUsed = TRUE,
                                              !.hist.stalls = <<>>]
         ELSE [Goto(S, t, "hcm") EXCEPT !.mon.rearm_press_start_ts = None,
                                        !.frame[t].line = <<Word(CONTROL_RESET, FALSE)>>]

-----------------------------------------------------------------------------
(* _handle_control_command *)

\* The JSON line a request is answered with.
ReplyOk == [ok |-> TRUE]

ReplyError(text) == [ok |-> FALSE, error |-> text]

\* control_command taking an unknown command for a reset.
control_command_lenient(cmd) ==
    CASE cmd = "" -> "empty command"
      [] cmd \in {"status", "state"} -> "status"
      [] cmd = "rearm" -> "rearm"
      [] cmd = "reset" -> CONTROL_RESET
      [] cmd = "enable" -> CONTROL_ENABLE
      [] cmd = "arm" -> CONTROL_ARM
      [] cmd = "unarm" -> CONTROL_UNARM
      [] cmd = "disable" -> CONTROL_DISABLE
      [] OTHER -> CONTROL_RESET

\* control_command taking unarm for disable and disable for unarm.
control_command_crossed(cmd) ==
    CASE cmd = "" -> "empty command"
      [] cmd \in {"status", "state"} -> "status"
      [] cmd = "rearm" -> "rearm"
      [] cmd = "reset" -> CONTROL_RESET
      [] cmd = "enable" -> CONTROL_ENABLE
      [] cmd = "arm" -> CONTROL_ARM
      [] cmd = "unarm" -> CONTROL_DISABLE
      [] cmd = "disable" -> CONTROL_UNARM
      [] OTHER -> "unknown command: " \o cmd

\* What a request does, after cmd.strip().lower(): "status", "rearm", the
\* marker handed to _handle_control_marker, or the error it is answered with.
control_command(cmd) ==
    CASE cmd = "" -> "empty command"
      [] cmd \in {"status", "state"} -> "status"
      [] cmd = "rearm" -> "rearm"
      [] cmd = "reset" -> CONTROL_RESET
      [] cmd = "enable" -> CONTROL_ENABLE
      [] cmd = "arm" -> CONTROL_ARM
      [] cmd = "unarm" -> CONTROL_UNARM
      [] cmd = "disable" -> CONTROL_DISABLE
      [] OTHER -> "unknown command: " \o cmd

\* The status branch evaluates asdict(self.state); the module does not import
\* asdict (monitor.py 1-17), so the call raises NameError, which _control_loop
\* catches and answers with {"ok": False, "error": str(e)} (371-373).
HandleControlCommand(S, t) ==
    LET do == control_command(S.frame[t].cmd.w)
    IN  IF do \in Markers
        THEN [Goto(S, t, "hcm") EXCEPT !.frame[t].line = <<Word(do, FALSE)>>,
                                       !.frame[t].reply = ReplyOk]
        ELSE IF do = "rearm"
        THEN [Goto(S, t, "_cmd_rearm") EXCEPT !.frame[t].reply = ReplyOk,
                                              !.hist.armAt = now, !.hist.armUsed = TRUE,
                                              !.hist.stalls = <<>>]
        ELSE IF do = "status"
        THEN [Goto(S, t, "ret") EXCEPT
                 !.frame[t].reply = ReplyError("name 'asdict' is not defined")]
        ELSE [Goto(S, t, "ret") EXCEPT !.frame[t].reply = ReplyError(do)]

-----------------------------------------------------------------------------
(* _loop, and the return of a handler *)

\* LoopTest taking no notice of the stop flag.
LoopTest_unstoppable(S, t) == Goto(S, t, "get")

\* while not self._stop_evt.is_set():
LoopTest(S, t) == Goto(S, t, IF S.mon.stop_evt THEN "done" ELSE "get")

\* line = self._serial_q.get(timeout=0.2): a queued line is handled, then
\* _maybe_jam runs; on queue.Empty _maybe_jam runs at once.
LoopGet(S, t) ==
    IF S.serial_q # <<>>
    THEN Enter([S EXCEPT !.serial_q = Tail(@)], t, "marker", Word("", FALSE), Head(S.serial_q), "hcm")
    ELSE Enter(S, t, "jam", Word("", FALSE), <<>>, "jam_1")

\* A handler returns: the main loop goes on with _maybe_jam after a marker,
\* with _maybe_breadcrumbs after _maybe_jam, and to the loop test after that;
\* the control loop goes back to its loop test, the GPIO thread waits.
Return(S, t) ==
    IF t = "main"
    THEN IF S.frame[t].op = "marker" THEN Enter(S, t, "jam", Word("", FALSE), <<>>, "jam_1")
         ELSE IF S.frame[t].op = "jam" THEN Enter(S, t, "breadcrumbs", Word("", FALSE), <<>>, "bc_1")
         ELSE [Goto(S, t, "loop") EXCEPT !.frame[t] = NoFrame]
    ELSE [Goto(S, t, IF t = "gpio" THEN "idle" ELSE IF S.mon.stop_evt THEN "exit" ELSE "accept")
             EXCEPT !.frame[t] = NoFrame]

-----------------------------------------------------------------------------
(* The statement a thread is at *)

Exec(S, t) ==
    LET l == S.pc[t].at
    IN  CASE l \in BlockNames -> BlockStep(S, t)
          [] l = "hcm" -> HandleControlMarker(S, t)
          [] l = "hcm_enable_1" -> HcmEnableReadEnabled(S, t)
          [] l = "hcm_enable_2" -> HcmEnableReadArmed(S, t)
          [] l = "jam_1" -> MaybeJamReadEnabled(S, t)
          [] l = "jam_2" -> MaybeJamReadLatched(S, t)
          [] l = "jam_3" -> MaybeJamReadArmed(S, t)
          [] l = "jam_4" -> MaybeJamCompare(S, t)
          [] l = "bc_1" -> BreadcrumbsReadEnabled(S, t)
          [] l = "bc_2" -> BreadcrumbsReadArmed(S, t)
          [] l = "bc_3" -> BreadcrumbsReadLatched(S, t)
          [] l = "bc_4" -> BreadcrumbsReadDt(S, t)
          [] l = "bc_5" -> BreadcrumbsStall(S, t)
          [] l = "bc_6" -> BreadcrumbsNext(S, t)
          [] l = "motion" -> MotionCheckStop(S, t)
          [] l = "motion_armed" -> MotionReadArmed(S, t)
          [] l = "motion_first" -> MotionFirstPulse(S, t)
          [] l = "motion_inc_arm" -> MotionIncSinceArm(S, t)
          [] l \in {"runout_asserted", "runout_cleared"} -> RunoutDebounce(S, t)
          [] l = "ra_set" -> RunoutAssertedSet(S, t)
          [] l = "ra_armed" -> RunoutAssertedReadArmed(S, t)
          [] l = "ra_enabled" -> RunoutAssertedReadEnabled(S, t)
          [] l = "ra_latched" -> RunoutAssertedReadLatched(S, t)
          [] l = "rc_set" -> RunoutClearedSet(S, t)
          [] l = "rc_armed" -> RunoutClearedReadArmed(S, t)
          [] l = "press" -> OnRearmButtonPress(S, t)
          [] l = "release" -> OnRearmButtonRelease(S, t)
          [] l = "request" -> HandleControlCommand(S, t)
          [] l = "loop" -> LoopTest(S, t)
          [] l = "get" -> LoopGet(S, t)
          [] l = "ret" -> Return(S, t)

\* Thread t runs on to where its handler returns or to where it blocks.
RECURSIVE Run(_, _)
Run(S, t) ==
    IF S.pc[t].at \in RestLabels \cup {"ret"} THEN S
    ELSE CHOOSE Z \in {Run(R, t) : R \in {Exec(S, t)}} : TRUE

\* One step of thread t: a statement when threads preempt each other, the
\* rest of the handler when handlers are serialised.
Advance(S, t) == IF env.conc THEN Exec(S, t) ELSE Run(Exec(S, t), t)

Deliver(S, t) == IF env.conc THEN S ELSE Run(S, t)

Set(S) ==
    \E R \in {S} :
        /\ state' = R.state
        /\ mon' = R.mon
        /\ serial_q' = R.serial_q
        /\ ser_out' = R.ser_out
        /\ pc' = R.pc
        /\ frame' = R.frame
        /\ hist' = R.hist

-----------------------------------------------------------------------------
(* Scheduling *)

\* A blocked _serial_q.get returns as soon as a line is queued.
LinePending == pc["main"].at = "get" /\ serial_q # <<>>

\* Handlers are serialised unless the run lets threads preempt each other.
MayRun(t) ==
    \/ env.conc
    \/ /\ \A u \in Threads \ {t} : Rest(u)
       /\ t = "main" \/ ~LinePending

\* One more input from outside, while the run's budget of inputs allows it
\* (a budget of -1 is no limit) and the latch count is within its bound.
MayInput == env.budget # 0 /\ hist.latches < MaxLatches

Spend == [env EXCEPT !.budget = IF @ > 0 THEN @ - 1 ELSE @]

ThreadStep(t) ==
    /\ ~Rest(t)
    /\ Set(Advance(Cur, t))
    /\ UNCHANGED <<now, env>>

MainLoopGet ==
    /\ pc["main"].at = "get"
    /\ MayRun("main")
    /\ Set(Advance(Cur, "main"))
    /\ UNCHANGED <<now, env>>

-----------------------------------------------------------------------------
(* Inputs: edges, requests, serial lines, the stop signal, the clock *)

MotionEdge ==
    /\ pc["gpio"].at = "idle"
    /\ MayInput /\ MayRun("gpio")
    /\ state.motion_pulses_total < MaxPulses
    /\ Set(Deliver(Enter(Cur, "gpio", "motion", Word("", FALSE), <<>>, "motion"), "gpio"))
    /\ env' = Spend
    /\ now' = now

\* The runout line changes level: the asserted or the cleared callback runs.
RunoutEdge ==
    /\ pc["gpio"].at = "idle"
    /\ MayInput /\ MayRun("gpio")
    /\ LET op == IF env.runout_line THEN "runout_cleared" ELSE "runout_asserted"
       IN  Set(Deliver(Enter(Cur, "gpio", op, Word("", FALSE), <<>>, op), "gpio"))
    /\ env' = [Spend EXCEPT !.runout_line = ~@]
    /\ now' = now

\* The button changes level: the press or the release callback runs.
ButtonEdge ==
    /\ pc["gpio"].at = "idle"
    /\ MayInput /\ MayRun("gpio")
    /\ LET op == IF env.button_down THEN "release" ELSE "press"
       IN  Set(Deliver(Enter(Cur, "gpio", op, Word("", FALSE), <<>>, op), "gpio"))
    /\ env' = [Spend EXCEPT !.button_down = ~@]
    /\ now' = now

\* _control_loop: accept a connection, read its request, handle it.
ControlAccept ==
    /\ pc["ctl"].at = "accept"
    /\ MayInput /\ MayRun("ctl")
    /\ \E req \in Requests :
          Set(Deliver(Enter(Cur, "ctl", "request", req, <<>>, "request"), "ctl"))
    /\ env' = Spend
    /\ now' = now

\* _control_loop: accept a connection that asks for the state or sends a
\* command the monitor does not know.
ControlQuery ==
    /\ pc["ctl"].at = "accept"
    /\ MayInput /\ MayRun("ctl")
    /\ \E req \in Queries :
          Set(Deliver(Enter(Cur, "ctl", "request", req, <<>>, "request"), "ctl"))
    /\ env' = Spend
    /\ now' = now

\* accept times out and the loop test sees the stop flag.
ControlExit ==
    /\ pc["ctl"].at = "accept"
    /\ mon.stop_evt
    /\ pc' = [pc EXCEPT !["ctl"] = Label("exit")]
    /\ UNCHANGED <<state, mon, serial_q, ser_out, now, frame, env, hist>>

\* SerialThread.run: readline returns a line, it is queued, and the loop
\* test runs.
SerialLine ==
    /\ env.reader = "readline"
    /\ MayInput
    /\ env.conc \/ AllRest
    /\ Len(serial_q) < MaxQueue
    /\ \E line \in Lines : serial_q' = Append(serial_q, line)
    /\ env' = [Spend EXCEPT !.reader = IF mon.stop_evt THEN "exit" ELSE "readline"]
    /\ UNCHANGED <<state, mon, ser_out, now, pc, frame, hist>>

\* SerialThread.run queues lines faster than the main loop takes them: up to
\* MaxBacklog lines wait in the queue.
SerialBacklog ==
    /\ env.reader = "readline"
    /\ MayInput
    /\ env.conc \/ AllRest
    /\ Len(serial_q) < MaxBacklog
    /\ \E line \in Lines : serial_q' = Append(serial_q, line)
    /\ env' = [Spend EXCEPT !.reader = IF mon.stop_evt THEN "exit" ELSE "readline"]
    /\ UNCHANGED <<state, mon, ser_out, now, pc, frame, hist>>

\* SerialThread.run queues a line that may hold several markers.
SerialMarkers ==
    /\ env.reader = "readline"
    /\ MayInput
    /\ env.conc \/ AllRest
    /\ Len(serial_q) < MaxQueue
    /\ \E line \in MarkerLines : serial_q' = Append(serial_q, line)
    /\ env' = [Spend EXCEPT !.reader = IF mon.stop_evt THEN "exit" ELSE "readline"]
    /\ UNCHANGED <<state, mon, ser_out, now, pc, frame, hist>>

\* readline times out and the loop test sees the stop flag.
SerialExit ==
    /\ env.reader = "readline"
    /\ mon.stop_evt
    /\ env' = [env EXCEPT !.reader = "exit"]
    /\ UNCHANGED <<state, mon, serial_q, ser_out, now, pc, frame, hist>>

\* SerialThread.run: readline raises; serial_read_error is emitted and the
\* loop is left.
SerialReadError ==
    /\ env.reader = "readline"
    /\ MayInput
    /\ env.conc \/ AllRest
    /\ env' = [Spend EXCEPT !.reader = "exit", !.log = Append(@, "serial_read_error")]
    /\ UNCHANGED <<state, mon, serial_q, ser_out, now, pc, frame, hist>>

\* The serial port stops taking writes (the cable is pulled, the printer
\* resets its USB side): from now on self._ser.write raises.
PortFails ==
    /\ env.port = "open"
    /\ MayInput
    /\ env.conc \/ AllRest
    /\ env' = [Spend EXCEPT !.port = "lost"]
    /\ UNCHANGED <<state, mon, serial_q, ser_out, now, pc, frame, hist>>

\* SIGINT or SIGTERM: the handler sets the supervisor's stop event.
Signal ==
    /\ ~env.stop /\ env.sup # "exited"
    /\ MayInput
    /\ env' = [Spend EXCEPT !.stop = TRUE,
                            !.sig_at = IF env.reader = "readline" THEN "alive" ELSE "dead"]
    /\ UNCHANGED <<state, mon, serial_q, ser_out, now, pc, frame, hist>>

\* One turn of the supervisor's loop that does not end in sleep: the loop
\* test sees the stop event, or the reader thread is found not alive.
SupervisorPoll ==
    /\ env.sup = "poll"
    /\ env.stop \/ env.reader = "exit"
    /\ env' = IF env.stop THEN [env EXCEPT !.sup = "stopping"]
              ELSE [env EXCEPT !.log = Append(@, "serial_thread_dead"), !.exit_code = 3,
                               !.stop = TRUE, !.sup = "stopping"]
    /\ UNCHANGED <<state, mon, serial_q, ser_out, now, pc, frame, hist>>

\* mon.stop()
SupervisorStop ==
    /\ env.sup = "stopping"
    /\ mon' = [mon EXCEPT !.stop_evt = TRUE]
    /\ env' = [env EXCEPT !.sup = "join"]
    /\ UNCHANGED <<state, serial_q, ser_out, now, pc, frame, hist>>

\* join(timeout=1.0) returns, the port is closed, main returns exit_code.
SupervisorReturn ==
    /\ env.sup = "join"
    /\ env' = [env EXCEPT !.sup = "exited"]
    /\ UNCHANGED <<state, mon, serial_q, ser_out, now, pc, frame, hist>>

\* FilamentMonitor.stop()
Stop ==
    /\ ~mon.stop_evt
    /\ MayInput
    /\ env.conc \/ (AllRest /\ ~LinePending)
    /\ mon' = [mon EXCEPT !.stop_evt = TRUE]
    /\ env' = Spend
    /\ UNCHANGED <<state, serial_q, ser_out, now, pc, frame, hist>>

Tick ==
    /\ AllRest /\ ~LinePending
    /\ hist.latches < MaxLatches
    /\ now < MaxTime
    /\ now' = now + 1
    /\ UNCHANGED <<state, mon, serial_q, ser_out, pc, frame, env, hist>>

-----------------------------------------------------------------------------

(* Specifications.  The sources of input are independent devices; each     *)
(* specification runs the monitor with some of them connected.              *)

\* The threads' own steps and the clock.
Sched ==
    \/ \E t \in Threads : ThreadStep(t)
    \/ MainLoopGet
    \/ Tick

\* Printer serial, control socket, motion sensor, runout switch.
Next ==
    \/ Sched
    \/ SerialLine
    \/ ControlAccept
    \/ MotionEdge
    \/ RunoutEdge

\* Printer serial, control socket, motion sensor, button.
NextButton ==
    \/ Sched
    \/ SerialLine
    \/ ControlAccept
    \/ MotionEdge
    \/ ButtonEdge

\* Every source of input, and the stop signal.
NextAll ==
    \/ Sched
    \/ SerialLine
    \/ ControlAccept
    \/ MotionEdge
    \/ RunoutEdge
    \/ ButtonEdge
    \/ Stop
    \/ ControlExit
    \/ SerialExit

\* Handlers serialised.
\* The control socket, the motion sensor, the runout switch and the button;
\* no serial line.
NextPanel == Sched \/ ControlAccept \/ MotionEdge \/ RunoutEdge \/ ButtonEdge

\* The serial line alone, with lines waiting in the queue.
NextBacklog == Sched \/ SerialBacklog

\* The serial line alone, with lines that hold several markers.
NextMarkers == Sched \/ SerialMarkers

\* The control socket with its clients of every kind, and the motion sensor.
NextSocket == Sched \/ ControlAccept \/ ControlQuery \/ MotionEdge

\* The serial line and the supervisor of the command line, with its signals.
NextSupervisor ==
    \/ Sched
    \/ SerialLine
    \/ SerialReadError
    \/ SerialExit
    \/ ControlExit
    \/ Signal
    \/ SupervisorPoll
    \/ SupervisorStop
    \/ SupervisorReturn

\* The serial line and the motion sensor.
NextStall == Sched \/ SerialLine \/ MotionEdge

\* The serial line and the runout switch.
NextRunout == Sched \/ SerialLine \/ RunoutEdge

\* The serial line and the runout switch, with a port that may fail.
NextFault == Sched \/ SerialLine \/ RunoutEdge \/ PortFails

Spec == Init /\ [][Next]_vars

SpecButton == Init /\ [][NextButton]_vars

\* Handlers serialised, a bounded number of inputs, shutdown included.
SpecStop == InitStop /\ [][NextAll]_vars

\* Threads preempting each other between statements, a bounded number of inputs.
SpecThreads == InitThreads /\ [][Next]_vars

SpecPanel == InitPanel /\ [][NextPanel]_vars

SpecBacklog == Init /\ [][NextBacklog]_vars

SpecMarkers == Init /\ [][NextMarkers]_vars

SpecSocket == Init /\ [][NextSocket]_vars

SpecStall == InitStall /\ [][NextStall]_vars

SpecSupervisor == Init /\ [][NextSupervisor]_vars

SpecRunout == InitRunout /\ [][NextRunout]_vars

SpecFault == Init /\ [][NextFault]_vars

\* The serial line and the motion sensor, threads preempting each other.
SpecRace == InitRace /\ [][NextStall]_vars

\* Shutdown with the threads running: the main loop and the handlers take the
\* steps they can take, and the blocking calls of the serial reader (readline,
\* port timeout 0.25 s) and of the control loop (accept, timeout 0.5 s) return,
\* so that their loop tests are reached again and again.
SpecStopLive ==
    /\ InitStop /\ [][NextAll]_vars
    /\ WF_vars(MainLoopGet \/ \E t \in Threads : ThreadStep(t))
    /\ WF_vars(ControlExit)
    /\ WF_vars(SerialExit)

\* The main loop is a running thread (every step it can take it eventually
\* takes), and each of its iterations blocks on the queue for a positive time,
\* so time passes again and again between iterations.
SpecLive ==
    /\ InitLive /\ [][Next]_vars
    /\ WF_vars(MainLoopGet \/ \E t \in Threads : ThreadStep(t))
    /\ SF_vars(Tick)

-----------------------------------------------------------------------------
(* Properties *)

\* n pause pairs: M400 then the pause text, n times.
PausePairs(n) == [k \in 1..(2 * n) |-> IF k % 2 = 1 THEN "M400" ELSE pause_gcode]

\* Thread t has returned from a handler (its frame still holds what ran and
\* the values it started from).
Returned(t) == pc[t].at = "ret"

\* The command a finished handler was given: by a serial line holding that
\* marker in either case and no marker of higher precedence, or by a socket
\* request spelling it in either case.
GivenBy(t, marker, higher) ==
    \/ /\ frame[t].op = "marker"
       /\ \E k \in DOMAIN frame[t].line : frame[t].line[k].w = marker
       /\ \A k \in DOMAIN frame[t].line : frame[t].line[k].w \notin higher
    \/ /\ frame[t].op = "request"
       /\ frame[t].cmd.w \in {"reset", "enable", "arm", "unarm", "disable"}
       /\ marker = "filmon:" \o frame[t].cmd.w

\* A button release that ends an accepted press held for less than the long
\* press time.
ShortPress(t) ==
    /\ frame[t].op = "release"
    /\ ~frame[t].pre.mon.stop_evt
    /\ frame[t].pre.mon.rearm_press_start_ts # None
    /\ now - frame[t].pre.mon.rearm_press_start_ts < rearm_button_long_press_s

\* C1: the lines written to serial are exactly one M400 line and one pause
\* line per false->true transition of latched: whenever no latching action is
\* in progress, the lines written are as many pause pairs as there were latch
\* transitions (so nothing is written while latched stays true).
C1_PausePairPerLatch ==
    (\A t \in Threads : pc[t].at # "_trigger_pause") => ser_out = PausePairs(hist.latches)

C3_ArmedImpliesEnabled == AllRest => (state.armed => state.enabled)

\* C4: every step that sets latched from false to true is taken in a state
\* where enabled and armed are both true.
C4_LatchOnlyWhenArmed ==
    [][(~state.latched /\ state'.latched) => (state.enabled /\ state.armed)]_vars

\* C5: when a reset returns (serial marker, socket request or short button
\* press), enabled, armed and latched are false, the per-reset and per-arm
\* pulse counters are 0, the pulse window is empty and last_pulse_ts is the
\* instant of the reset.
C5_ResetPostcondition ==
    \A t \in Threads :
        (Returned(t) /\ (GivenBy(t, CONTROL_RESET, {}) \/ ShortPress(t))) =>
            /\ ~state.enabled /\ ~state.armed /\ ~state.latched
            /\ state.motion_pulses_since_reset = 0
            /\ state.motion_pulses_since_arm = 0
            /\ mon.pulse_times = <<>>
            /\ state.last_pulse_ts = now

\* C5 witness: a short button press has reset a monitor that was latched, with
\* pulses counted and a pulse in the window.
C5_Witness ==
    /\ Returned("gpio") /\ ShortPress("gpio")
    /\ frame["gpio"].pre.state.latched
    /\ frame["gpio"].pre.state.motion_pulses_since_reset > 0
    /\ frame["gpio"].pre.state.motion_pulses_since_arm > 0
    /\ frame["gpio"].pre.mon.pulse_times # <<>>
    /\ frame["gpio"].pre.state.last_pulse_ts < now

\* C6: an edge callback that starts after the stop flag is set changes no
\* field of MonitorState, leaves the pulse window as it was and writes
\* nothing to serial.
C6_StoppedCallbacksInert ==
    (Returned("gpio") /\ frame["gpio"].pre.mon.stop_evt) =>
        /\ state = frame["gpio"].pre.state
        /\ mon.pulse_times = frame["gpio"].pre.mon.pulse_times
        /\ ser_out = frame["gpio"].pre.ser_out

\* A runout-asserted callback has returned, and its edge passed the debounce.
AcceptedRunoutAsserted ==
    /\ Returned("gpio") /\ frame["gpio"].op = "runout_asserted"
    /\ now - frame["gpio"].pre.mon.last_runout_edge >= runout_debounce_s

\* C8: an accepted runout-asserted edge sets runout_asserted; if the monitor
\* was enabled, armed and not latched it latches with reason runout and writes
\* one M400 + pause pair; otherwise (enabled but unarmed, for one) it writes
\* nothing and leaves latched as it was.
C8_RunoutLatchesOnlyArmed ==
    AcceptedRunoutAsserted =>
        LET pre == frame["gpio"].pre
        IN  /\ state.runout_asserted
            /\ IF pre.state.enabled /\ pre.state.armed /\ ~pre.state.latched
               THEN /\ state.latched
                    /\ state.last_trigger = "runout"
                    /\ ser_out = pre.ser_out \o <<"M400", pause_gcode>>
               ELSE /\ state.latched = pre.state.latched
                    /\ ser_out = pre.ser_out

\* C8 witness: an accepted edge has latched an armed monitor that had latched
\* and been re-armed before.
C8_Witness ==
    /\ AcceptedRunoutAsserted
    /\ frame["gpio"].pre.state.armed /\ ~frame["gpio"].pre.state.latched
    /\ frame["gpio"].pre.ser_out # <<>>
    /\ state.latched

\* C9: a jam never latches sooner than jam_timeout_s after the arm in force
\* was applied: the step that sets latched for reason jam is taken at an
\* instant at least jam_timeout_s after that arm.
C9_NoJamBeforeArmTimeout ==
    [][(\E t \in Threads :
            /\ pc[t].at = "_trigger_pause" /\ frame[t].reason = "jam"
            /\ pc'[t] # pc[t]
            /\ ~state.latched /\ state'.latched)
        => now >= hist.armAt + jam_timeout_s]_vars

\* C10: while latched, enable, arm and unarm (serial marker or socket request)
\* change nothing: MonitorState, the pulse window, the stall progression and
\* the other monitor attributes are as before, nothing is written and no
\* event is emitted.
C10_IgnoredWhileLatched ==
    \A t \in Threads :
        (/\ Returned(t)
         /\ \/ GivenBy(t, CONTROL_ENABLE, {CONTROL_RESET, CONTROL_DISABLE, CONTROL_UNARM, CONTROL_ARM})
            \/ GivenBy(t, CONTROL_ARM, {CONTROL_RESET, CONTROL_DISABLE, CONTROL_UNARM})
            \/ GivenBy(t, CONTROL_UNARM, {CONTROL_RESET, CONTROL_DISABLE})
         /\ frame[t].pre.state.latched) =>
            /\ state = frame[t].pre.state
            /\ mon = frame[t].pre.mon
            /\ ser_out = frame[t].pre.ser_out
            /\ frame[t].ev = <<>>

\* C10 witness: an arm marker on the serial line has been handled while
\* latched, with the stall progression advanced and a pulse in the window.
C10_Witness ==
    /\ Returned("main") /\ GivenBy("main", CONTROL_ARM, {})
    /\ frame["main"].pre.state.latched
    /\ frame["main"].pre.mon.stall_next_idx > 0
    /\ frame["main"].pre.mon.pulse_times # <<>>

\* Nothing more arrives: the inputs are used up, no line is queued and no
\* handler is running.
Quiet == env.budget = 0 /\ serial_q = <<>> /\ AllRest

\* C7: once the monitor is enabled, armed and not latched and nothing more
\* arrives (no pulse, no command, no runout edge), the main loop eventually
\* latches it with last_trigger jam, having written one more M400 + pause
\* pair; stated for the arms whose timeout falls within the modelled time.
C7_ArmedQuietEventuallyJams ==
    \A k \in 0..(MaxLatches - 1) :
        (/\ Quiet
         /\ state.enabled /\ state.armed /\ ~state.latched
         /\ hist.latches = k /\ ser_out = PausePairs(k)
         /\ state.last_pulse_ts + jam_timeout_s <= MaxTime)
        ~> (/\ state.latched /\ state.last_trigger = "jam"
            /\ hist.latches = k + 1
            /\ ser_out = PausePairs(k + 1))

\* C7 witness: with nothing arriving after the arm, the jam timeout after it
\* has passed and the monitor is latched for reason jam, one pair written per
\* latch.
C7_Witness ==
    /\ Quiet
    /\ hist.armAt > 0 /\ now >= hist.armAt + jam_timeout_s
    /\ state.armed /\ state.latched /\ state.last_trigger = "jam"
    /\ hist.latches > 0 /\ ser_out = PausePairs(hist.latches)

\* A button release that ends an accepted press held for at least the long
\* press time.
LongPress(t) ==
    /\ frame[t].op = "release"
    /\ ~frame[t].pre.mon.stop_evt
    /\ frame[t].pre.mon.rearm_press_start_ts # None
    /\ now - frame[t].pre.mon.rearm_press_start_ts >= rearm_button_long_press_s

ResetGiven(t) == GivenBy(t, CONTROL_RESET, {}) \/ ShortPress(t)

RearmGiven(t) == (frame[t].op = "request" /\ frame[t].cmd.w = "rearm") \/ LongPress(t)

DisableGiven(t) == GivenBy(t, CONTROL_DISABLE, {CONTROL_RESET})

ArmGiven(t) == GivenBy(t, CONTROL_ARM, {CONTROL_RESET, CONTROL_DISABLE, CONTROL_UNARM})

\* C11 as stated: a handler that started latched ends unlatched exactly when
\* it was given reset, rearm or disable; and an arm given to an unlatched
\* monitor arms it.
C11_LatchExits ==
    \A t \in Threads :
        Returned(t) =>
            /\ frame[t].pre.state.latched =>
                  (~state.latched <=> (ResetGiven(t) \/ RearmGiven(t) \/ DisableGiven(t)))
            /\ (ArmGiven(t) /\ ~frame[t].pre.state.latched) => (state.enabled /\ state.armed)

\* C11 amended: a handler that started latched ends unlatched exactly when it
\* was given reset or rearm (disable, given while latched, clears enabled and
\* armed and leaves latched true); and an arm given to an unlatched monitor
\* arms it, so the arm that follows a reset or a rearm is honored.
C11_LatchExitsResetRearm ==
    \A t \in Threads :
        Returned(t) =>
            /\ frame[t].pre.state.latched =>
                  /\ ~state.latched <=> (ResetGiven(t) \/ RearmGiven(t))
                  /\ DisableGiven(t) => (~state.enabled /\ ~state.armed)
            /\ (ArmGiven(t) /\ ~frame[t].pre.state.latched) => (state.enabled /\ state.armed)

\* C11 witness: an arm is honored after a reset took the monitor out of
\* the latched state.
C11_Witness ==
    /\ Returned("main") /\ ArmGiven("main")
    /\ hist.latches > 0
    /\ ~frame["main"].pre.state.latched /\ ~frame["main"].pre.state.armed
    /\ state.armed /\ ~state.latched

\* What a rearm at the present instant leaves, of a MonitorState st and a
\* pulse window w.
Rearmed(st, w) ==
    /\ ~st.latched /\ ~st.runout_asserted
    /\ st.enabled /\ st.armed
    /\ st.motion_pulses_since_arm = 0 /\ st.motion_pulses_since_reset = 0
    /\ w = <<>>
    /\ st.arm_ts = now /\ st.last_pulse_ts = now

\* C12: rearm (socket request or long button press), from any state, leaves
\* latched and runout_asserted false, enabled and armed true, both pulse
\* counters 0, the pulse window empty and arm_ts = last_pulse_ts = now; and
\* applied to a state a rearm at the same instant has left, it leaves that
\* state as it is.
C12_RearmPostcondition ==
    \A t \in Threads :
        (Returned(t) /\ RearmGiven(t)) =>
            /\ Rearmed(state, mon.pulse_times)
            /\ Rearmed(frame[t].pre.state, frame[t].pre.mon.pulse_times) =>
                  /\ state = frame[t].pre.state
                  /\ mon.pulse_times = frame[t].pre.mon.pulse_times
                  /\ mon.stall_next_idx = frame[t].pre.mon.stall_next_idx

\* C12 witness: a second rearm in the same instant as a first one that had
\* cleared a latch.
C12_Witness ==
    /\ Returned("ctl") /\ RearmGiven("ctl")
    /\ Rearmed(frame["ctl"].pre.state, frame["ctl"].pre.mon.pulse_times)
    /\ state.last_trigger = "jam" /\ state.motion_pulses_total > 0

\* What a reset at the present instant leaves, of a MonitorState st and a
\* pulse window w.
ResetDone(st, w) ==
    /\ ~st.enabled /\ ~st.armed /\ ~st.latched
    /\ st.motion_pulses_since_reset = 0 /\ st.motion_pulses_since_arm = 0
    /\ w = <<>>
    /\ st.last_pulse_ts = now

\* A handler that did nothing: MonitorState, the monitor's attributes and the
\* serial output are as it found them and it emitted no event.
NoAction(t) ==
    /\ state = frame[t].pre.state
    /\ mon = frame[t].pre.mon
    /\ ser_out = frame[t].pre.ser_out
    /\ frame[t].ev = <<>>

\* C13: a release that follows an accepted press (its start time d ago) does
\* rearm when d >= rearm_button_long_press_s and reset when d is less, in any
\* state; it uses the press up, a release with no accepted press pending does
\* nothing, and a press by itself changes no MonitorState.
C13_ReleaseChoosesByHold ==
    (Returned("gpio") /\ ~frame["gpio"].pre.mon.stop_evt) =>
        LET pre == frame["gpio"].pre
            start == pre.mon.rearm_press_start_ts
        IN  /\ frame["gpio"].op = "release" =>
                 IF start = None THEN NoAction("gpio")
                 ELSE /\ mon.rearm_press_start_ts = None
                      /\ IF now - start >= rearm_button_long_press_s
                         THEN /\ frame["gpio"].ev = <<"rearmed">>
                              /\ Rearmed(state, mon.pulse_times)
                         ELSE /\ frame["gpio"].ev = <<"reset">>
                              /\ ResetDone(state, mon.pulse_times)
            /\ frame["gpio"].op = "press" =>
                 /\ state = pre.state /\ ser_out = pre.ser_out /\ frame["gpio"].ev = <<>>

\* C13 witness: a press held for exactly the long press time has rearmed a
\* latched monitor.
C13_Witness ==
    /\ Returned("gpio") /\ LongPress("gpio")
    /\ now - frame["gpio"].pre.mon.rearm_press_start_ts = rearm_button_long_press_s
    /\ frame["gpio"].pre.state.latched
    /\ frame["gpio"].ev = <<"rearmed">>

\* C14: a press less than rearm_button_debounce_s after the last accepted
\* press is ignored (nothing changes, no press is pending after it), a press
\* later than that is accepted; only the button callbacks touch the pending
\* press; and a release with no press pending, as after an ignored press,
\* performs no action.
C14_DebouncedPressIgnored ==
    \A t \in Threads :
        (Returned(t) /\ ~frame[t].pre.mon.stop_evt) =>
            LET pre == frame[t].pre
            IN  /\ frame[t].op = "press" =>
                     IF now - pre.mon.last_rearm_edge < rearm_button_debounce_s
                     THEN NoAction(t) /\ mon.rearm_press_start_ts = None
                     ELSE mon.rearm_press_start_ts = now /\ mon.last_rearm_edge = now
                /\ (frame[t].op = "release" /\ pre.mon.rearm_press_start_ts = None) => NoAction(t)
                /\ frame[t].op \notin {"press", "release"} =>
                     mon.rearm_press_start_ts = pre.mon.rearm_press_start_ts

\* C14 witness: the release after an ignored press, held longer than the long
\* press time on a latched monitor, has done nothing.
C14_Witness ==
    /\ Returned("gpio") /\ frame["gpio"].op = "release"
    /\ frame["gpio"].pre.mon.rearm_press_start_ts = None
    /\ now - frame["gpio"].pre.mon.last_rearm_edge >= rearm_button_long_press_s
    /\ state.latched

\* A jam evaluation of the main loop has returned, having latched.
JamLatched ==
    /\ Returned("main") /\ frame["main"].op = "jam"
    /\ ~frame["main"].pre.state.latched /\ state.latched

\* C15: a jam evaluation latches only once the post-arm grace is over: at
\* least arm_grace_s after the arm and with at least arm_grace_pulses pulses
\* counted since the arm.
C15_NoJamWithinGrace ==
    JamLatched =>
        /\ now - frame["main"].pre.state.arm_ts >= arm_grace_s
        /\ frame["main"].pre.state.motion_pulses_since_arm >= arm_grace_pulses

Clamp(lo, hi, x) == IF x < lo THEN lo ELSE IF x > hi THEN hi ELSE x

Max(a, b) == IF a > b THEN a ELSE b

\* The effective timeout of adaptive mode for a smoothed pulse rate.
T_eff(pps_ema) ==
    Clamp(jam_timeout_min_s, jam_timeout_max_s,
          jam_timeout_k \div Max(pps_ema, jam_timeout_pps_floor))

\* C16: with adaptive mode on, a jam evaluation uses the timeout
\* clamp(T_min, T_max, K / max(pps_ema, pps_floor)), which lies between
\* jam_timeout_min_s and jam_timeout_max_s; stated for the evaluations made
\* when no pulse has ever arrived, where the smoothed rate is 0: such an
\* evaluation latches only when now - last_pulse_ts has reached T_eff(0).
C16_AdaptiveTimeoutClamped ==
    /\ jam_timeout_min_s <= T_eff(0) /\ T_eff(0) <= jam_timeout_max_s
    /\ (JamLatched /\ state.motion_pulses_total = 0) =>
          now - frame["main"].pre.state.last_pulse_ts >= T_eff(0)

NotifierSends(ev) == Cardinality({k \in DOMAIN ev : ev[k] = "notify"})

\* C18: a handler that takes latched from false to true dispatches the
\* notifier exactly once, and a handler that found latched true dispatches
\* nothing.
C18_NotifyOncePerLatch ==
    \A t \in Threads :
        Returned(t) =>
            NotifierSends(frame[t].ev) =
                IF ~frame[t].pre.state.latched /\ state.latched THEN 1 ELSE 0

\* The blocks that write several fields of MonitorState.
TransitionBlocks ==
    {"hcm_reset", "hcm_disable_latched", "hcm_disable", "hcm_unarm", "hcm_arm",
     "hcm_enable", "_cmd_rearm", "_trigger_pause"}

\* Thread u is part-way through a transition: it has written some field of
\* MonitorState and has another one still to write.
Torn(u) ==
    /\ pc[u].at \in TransitionBlocks
    /\ \E j \in 1..(pc[u].i - 1) : Block(pc[u].at)[j].o = "state"
    /\ \E j \in pc[u].i..Len(Block(pc[u].at)) : Block(pc[u].at)[j].o = "state"

\* The statements of a jam evaluation, an edge callback or a marker handler
\* that read a field of MonitorState.
ReadLabels ==
    {"jam_1", "jam_2", "jam_3", "jam_4", "bc_1", "bc_2", "bc_3", "bc_4",
     "ra_armed", "ra_enabled", "ra_latched", "rc_armed",
     "motion_armed", "motion_first", "hcm", "hcm_enable_1", "hcm_enable_2"}

\* C19: transitions that write several fields of MonitorState are atomic for
\* the other threads: no thread takes a step that reads MonitorState while
\* another thread is part-way through such a transition.
C19_NoTornRead ==
    [][\A t \in Threads :
          (pc[t].at \in ReadLabels /\ pc'[t] # pc[t]) =>
              \A u \in Threads \ {t} : ~Torn(u)]_vars

\* C20: every line queued before a jam evaluation has been handled when the
\* evaluation runs, so when an evaluation has latched, no line with an unarm,
\* disable or reset marker is still waiting in the queue.
C20_QueuedLinesBeforeJam ==
    JamLatched =>
        \A k \in DOMAIN serial_q :
            \A j \in DOMAIN serial_q[k] :
                serial_q[k][j].w \notin {CONTROL_UNARM, CONTROL_DISABLE, CONTROL_RESET}

\* The markers, highest precedence first.
Precedence == <<CONTROL_RESET, CONTROL_DISABLE, CONTROL_UNARM, CONTROL_ARM, CONTROL_ENABLE>>

\* The line holds the marker, in either case.
Holds(line, marker) == \E k \in DOMAIN line : line[k].w = marker

\* The position in Precedence of the highest marker the line holds (0: none).
Highest(line) ==
    IF \E p \in DOMAIN Precedence : Holds(line, Precedence[p])
    THEN CHOOSE p \in DOMAIN Precedence :
            /\ Holds(line, Precedence[p])
            /\ \A q \in 1..(p - 1) : ~Holds(line, Precedence[q])
    ELSE 0

\* The event a command emits, and the enabled and armed it leaves.
CommandEvent == <<"reset", "disabled", "unarmed", "armed", "enabled">>

CommandEnabled == <<FALSE, FALSE, TRUE, TRUE, TRUE>>

CommandArmed == <<FALSE, FALSE, FALSE, TRUE, FALSE>>

\* C21: the command a serial line applies is that of the marker of highest
\* precedence (reset > disable > unarm > arm > enable) among those the line
\* holds, in either case: its event is the only event emitted and enabled and
\* armed are as it leaves them; while latched only reset and disable are
\* applied and a line whose highest marker is another one does nothing; a
\* line that holds no marker changes nothing and emits nothing.
C21_MarkerPrecedence ==
    (Returned("main") /\ frame["main"].op = "marker") =>
        LET p == Highest(frame["main"].line)
        IN  IF p = 0 \/ (frame["main"].pre.state.latched /\ p > 2)
            THEN NoAction("main")
            ELSE /\ frame["main"].ev = <<CommandEvent[p]>>
                 /\ state.enabled = CommandEnabled[p]
                 /\ state.armed = CommandArmed[p]

\* C21 witness: a line holding arm and, after it and in upper case, unarm has
\* unarmed an armed monitor.
C21_Witness ==
    /\ Returned("main") /\ frame["main"].op = "marker"
    /\ frame["main"].line = <<Word(CONTROL_ARM, FALSE), Word(CONTROL_UNARM, TRUE)>>
    /\ frame["main"].pre.state.armed
    /\ frame["main"].ev = <<"unarmed">>

\* The commands of the control socket.
KnownCommands == {"status", "state", "rearm", "reset", "enable", "arm", "unarm", "disable"}

\* C22: a request that is empty or is none of the known commands is answered
\* with {ok: false, error: ...} (the error of an unknown command names it,
\* case-folded), changes nothing of MonitorState or of the monitor and writes
\* nothing; and the control loop goes back to accepting connections.
C22_BadRequestAnswered ==
    /\ [](\A t \in Threads :
            (Returned(t) /\ frame[t].op = "request" /\ frame[t].cmd.w \notin KnownCommands) =>
                /\ frame[t].reply =
                      ReplyError(IF frame[t].cmd.w = "" THEN "empty command"
                                 ELSE "unknown command: " \o frame[t].cmd.w)
                /\ NoAction(t))
    /\ [][(/\ Returned("ctl") /\ frame["ctl"].op = "request"
           /\ ~frame["ctl"].reply.ok
           /\ pc'["ctl"] # pc["ctl"])
          => pc'["ctl"].at = "accept"]_vars

\* C22 witness: the control loop is accepting again after it answered an
\* unknown command on a latched monitor.  (A thread at accept holds no frame,
\* so the witness is the answer itself, on a monitor that had latched.)
C22_Witness ==
    /\ Returned("ctl") /\ frame["ctl"].op = "request"
    /\ frame["ctl"].cmd = Word("nonsense", TRUE)
    /\ frame["ctl"].reply = ReplyError("unknown command: nonsense")
    /\ state.latched /\ state.motion_pulses_total > 0

\* C23: status (or state) is answered with {ok: true, state: the fields of
\* MonitorState, version: VERSION} in every state, and changes nothing.
C23_StatusSnapshot ==
    \A t \in Threads :
        (Returned(t) /\ frame[t].op = "request" /\ frame[t].cmd.w \in {"status", "state"}) =>
            /\ frame[t].reply = [ok |-> TRUE, state |-> frame[t].pre.state, version |-> VERSION]
            /\ NoAction(t)

\* How many times the event was emitted by the reader or the supervisor.
Logged(e) == Cardinality({k \in DOMAIN env.log : env.log[k] = e})

\* C24: a reader whose read raises emits serial_read_error once and never
\* reads again; when the process has exited after a read raised with no
\* signal before it, serial_thread_dead was emitted after serial_read_error,
\* the stop flag is set and the exit code is 3; when it has exited after a
\* signal that came with the reader running, the exit code is 0.
C24_ReaderDeathExitCode ==
    /\ Logged("serial_read_error") <= 1
    /\ Logged("serial_read_error") = 1 => env.reader = "exit"
    /\ env.sup = "exited" =>
          /\ (Logged("serial_read_error") = 1 /\ env.sig_at # "alive") =>
                /\ env.log = <<"serial_read_error", "serial_thread_dead">>
                /\ mon.stop_evt
                /\ env.exit_code = 3
          /\ env.sig_at = "alive" => env.exit_code = 0

\* Thread t is inside _send_gcode with part of its line written.
MidLine(t) == pc[t].at = "_trigger_pause" /\ frame[t].send = 2

\* C25: a line is written and flushed by the thread that holds the write lock
\* (at most one thread is between acquire and release), so every line that
\* has reached the serial link is one whole G-code line of the pause sequence,
\* and what has been written since the last newline is the text of the one
\* thread that is part-way through its line.
C25_LinesNeverInterleave ==
    /\ \A k \in DOMAIN ser_out : ser_out[k] \in {"M400", pause_gcode}
    /\ \A t, u \in Threads :
          (frame[t].send > 0 /\ frame[u].send > 0) => t = u
    /\ \A t \in Threads : frame[t].send > 0 => mon.ser_lock = t
    /\ IF \E t \in Threads : MidLine(t)
       THEN mon.ser_partial \in {"M400", pause_gcode}
       ELSE mon.ser_partial = ""

\* C25 witness: the GPIO thread waits for the write lock to send its line
\* while the main loop holds it with part of a line written.
C25_Witness ==
    /\ MidLine("main")
    /\ pc["gpio"].at = "_trigger_pause" /\ frame["gpio"].send = 0
    /\ Block("_trigger_pause")[pc["gpio"].i].o = "ser"
    /\ mon.ser_lock = "main"

\* The main loop, the serial reader and the control loop have all ended.
AllTerminated == pc["main"].at = "done" /\ env.reader = "exit" /\ pc["ctl"].at = "exit"

\* C26: once the stop flag is set, the main loop, the serial reader and the
\* control-socket loop all eventually end (the control loop's end is where it
\* closes its socket and removes the path).
C26_StopTerminatesAll == mon.stop_evt ~> AllTerminated

\* C26 witness: all three have ended on a monitor that was stopped while
\* armed, with a line of the printer still in the queue.
C26_Witness ==
    /\ mon.stop_evt /\ AllTerminated
    /\ state.armed
    /\ serial_q # <<>>

EnableGiven(t) ==
    GivenBy(t, CONTROL_ENABLE, {CONTROL_RESET, CONTROL_DISABLE, CONTROL_UNARM, CONTROL_ARM})

\* The pulse counters of a MonitorState.
Counters(st) ==
    <<st.motion_pulses_total, st.motion_pulses_since_reset, st.motion_pulses_since_arm>>

\* C27 as stated: enable given to an unlatched monitor leaves enabled true,
\* armed false and last_pulse_ts = now, the pulse counters as they were and
\* latched false; given to a monitor that is already enabled and unarmed it
\* leaves enabled, armed and the counters as they were.
C27_EnablePostcondition ==
    \A t \in Threads :
        (Returned(t) /\ EnableGiven(t) /\ ~frame[t].pre.state.latched) =>
            /\ state.enabled /\ ~state.armed /\ ~state.latched
            /\ state.last_pulse_ts = now
            /\ Counters(state) = Counters(frame[t].pre.state)

\* C27 amended: enable given to an unlatched monitor leaves enabled true and
\* armed false, the pulse counters as they were and latched false, and emits
\* enabled; it sets last_pulse_ts = now unless the monitor was already enabled
\* and unarmed, in which case it changes nothing at all (last_pulse_ts
\* included).
C27_EnableUnlessEnabled ==
    \A t \in Threads :
        (Returned(t) /\ EnableGiven(t) /\ ~frame[t].pre.state.latched) =>
            LET pre == frame[t].pre
            IN  /\ state.enabled /\ ~state.armed /\ ~state.latched
                /\ Counters(state) = Counters(pre.state)
                /\ frame[t].ev = <<"enabled">>
                /\ IF pre.state.enabled /\ ~pre.state.armed
                   THEN state = pre.state /\ mon = pre.mon /\ ser_out = pre.ser_out
                   ELSE state.last_pulse_ts = now

\* C27 witness: a second enable, later than the first and after a pulse, has
\* left everything as it was, last_pulse_ts too.
C27_Witness ==
    /\ Returned("main") /\ EnableGiven("main")
    /\ frame["main"].pre.state.enabled /\ ~frame["main"].pre.state.armed
    /\ ~frame["main"].pre.state.latched
    /\ state.motion_pulses_since_reset > 0
    /\ state.last_pulse_ts < now

UnarmGiven(t) == GivenBy(t, CONTROL_UNARM, {CONTROL_RESET, CONTROL_DISABLE})

\* What disable and unarm leave alone: the pulse counters, last_pulse_ts,
\* arm_ts, latched, runout_asserted and the pulse window.
FrameKept(t) ==
    LET pre == frame[t].pre
    IN  /\ Counters(state) = Counters(pre.state)
        /\ state.last_pulse_ts = pre.state.last_pulse_ts
        /\ state.arm_ts = pre.state.arm_ts
        /\ state.latched = pre.state.latched
        /\ state.runout_asserted = pre.state.runout_asserted
        /\ mon.pulse_times = pre.mon.pulse_times

\* C28: disable leaves enabled and armed false, latched or not; unarm, given
\* to an unlatched monitor, leaves enabled true and armed false; both leave
\* the pulse counters, last_pulse_ts, arm_ts, latched, runout_asserted and the
\* pulse window as they were (as does an unarm given while latched, which is
\* ignored).
C28_DisableUnarmFrame ==
    \A t \in Threads :
        Returned(t) =>
            /\ DisableGiven(t) => (~state.enabled /\ ~state.armed /\ FrameKept(t))
            /\ UnarmGiven(t) =>
                  /\ FrameKept(t)
                  /\ ~frame[t].pre.state.latched => (state.enabled /\ ~state.armed)

\* C28 witness: an unarm has disarmed an armed monitor whose switch reads
\* runout, with pulses counted since the arm and a pulse in the window, later
\* than the last pulse.
C28_Witness ==
    /\ Returned("main") /\ UnarmGiven("main")
    /\ frame["main"].pre.state.armed /\ ~frame["main"].pre.state.latched
    /\ ~state.armed
    /\ state.motion_pulses_since_arm > 0
    /\ state.runout_asserted
    /\ mon.pulse_times # <<>>
    /\ state.last_pulse_ts < now

\* Strictly ascending: no threshold twice, and none after a higher one.
Ascending(seq) == \A i, j \in DOMAIN seq : i < j => seq[i] < seq[j]

\* A breadcrumbs evaluation that emitted something emitted stall events only,
\* and found the monitor enabled, armed and not latched.
StallOnlyWhileArmed ==
    (Returned("main") /\ frame["main"].op = "breadcrumbs" /\ frame["main"].ev # <<>>) =>
        /\ \A k \in DOMAIN frame["main"].ev : frame["main"].ev[k] = "stall"
        /\ frame["main"].pre.state.enabled
        /\ frame["main"].pre.state.armed
        /\ ~frame["main"].pre.state.latched

\* C29 as stated: among the stall events emitted since the arm in force was
\* applied, no threshold occurs twice and the thresholds ascend; and a stall
\* event is emitted only by an evaluation that found the monitor enabled,
\* armed and not latched.
C29_StallOncePerArm == Ascending(hist.stalls) /\ StallOnlyWhileArmed

\* C29 amended: the same, for the stall events emitted since the progression
\* was last reset (by arm, rearm, unarm, enable, reset, or by a motion pulse):
\* a pulse starts the thresholds over within the same arming cycle.
C29_StallOncePerRun == Ascending(hist.run) /\ StallOnlyWhileArmed

\* C29 witness: in one arming cycle both thresholds were reported, a pulse
\* arrived, and both were reported again in ascending order.
C29_Witness ==
    /\ hist.stalls = <<1, 2, 1, 2>>
    /\ hist.run = <<1, 2>>
    /\ state.armed /\ ~state.latched
    /\ Returned("main") /\ frame["main"].op = "breadcrumbs"

\* C30: a runout edge, asserted or cleared, is accepted exactly when at least
\* runout_debounce_s has passed since the last accepted edge of either kind:
\* an accepted edge becomes the reference time and sets runout_asserted to its
\* level; a rejected edge changes nothing, the reference time included, emits
\* nothing and writes nothing.
C30_RunoutDebounce ==
    (Returned("gpio") /\ frame["gpio"].op \in {"runout_asserted", "runout_cleared"}) =>
        IF now - frame["gpio"].pre.mon.last_runout_edge >= runout_debounce_s
        THEN /\ mon.last_runout_edge = now
             /\ state.runout_asserted = (frame["gpio"].op = "runout_asserted")
        ELSE NoAction("gpio")

\* C30 witness: on an armed monitor the asserted edge that follows, within
\* the debounce time, an accepted cleared edge is rejected: runout_asserted
\* stays false and nothing latches.
C30_Witness ==
    /\ Returned("gpio") /\ frame["gpio"].op = "runout_asserted"
    /\ now - frame["gpio"].pre.mon.last_runout_edge < runout_debounce_s
    /\ frame["gpio"].pre.mon.last_runout_edge > 1
    /\ state.enabled /\ state.armed /\ ~state.latched
    /\ ~state.runout_asserted

-----------------------------------------------------------------------------
(* The runout reading against the line *)

\* The runout line has rested at its level for the debounce time, and no reset
\* or rearm has written runout_asserted since the line's last edge.
LineSettled ==
    /\ AllRest
    /\ hist.edgeAt # 0 /\ hist.edgeKept
    /\ now - hist.edgeAt >= runout_debounce_s

\* C31: whenever the runout line has held one level for at least
\* runout_debounce_s and no reset or rearm has been applied since its last
\* edge, runout_asserted is true exactly when the line is at its asserted level.
C31_RunoutReadingCurrent ==
    LineSettled => (state.runout_asserted <=> env.runout_line)

-----------------------------------------------------------------------------
(* Motion pulses and cleared edges *)

\* The callback thread has returned from a motion pulse or from a cleared edge
\* of the runout line.
PulseOrClear(t) ==
    /\ ~env.conc
    /\ Returned(t)
    /\ frame[t].op \in {"motion", "runout_cleared"}

\* C32: a motion pulse and a runout-cleared edge leave enabled, armed, latched
\* and last_trigger as they were and write nothing to serial; neither unlatches
\* and a pulse while latched causes no further pause.
C32_PulseAndClearKeepFrame ==
    \A t \in Threads :
        PulseOrClear(t) =>
            /\ state.enabled = frame[t].pre.state.enabled
            /\ state.armed = frame[t].pre.state.armed
            /\ state.latched = frame[t].pre.state.latched
            /\ state.last_trigger = frame[t].pre.state.last_trigger
            /\ ser_out = frame[t].pre.ser_out

\* An accepted cleared edge while latched by a runout: the reading goes back to
\* false and the latch stays.
C32_Witness ==
    /\ PulseOrClear("gpio")
    /\ frame["gpio"].op = "runout_cleared"
    /\ frame["gpio"].pre.state.latched /\ frame["gpio"].pre.state.runout_asserted
    /\ ~state.runout_asserted /\ state.latched /\ state.last_trigger = "runout"

-----------------------------------------------------------------------------
(* What one motion pulse counts *)

\* The step emits first_pulse_after_arm.
FirstPulseEmitted ==
    /\ pc["gpio"].at = "motion_first"
    /\ Len(frame'["gpio"].ev) > Len(frame["gpio"].ev)

\* C33: under any interleaving with other callbacks and commands, a motion
\* pulse raises motion_pulses_total and motion_pulses_since_reset by exactly 1,
\* raises motion_pulses_since_arm by exactly 1 and only while armed, and
\* first_pulse_after_arm is emitted only for a pulse that finds the monitor
\* armed with no pulse counted since the arm.
C33_PulseCountsExactly ==
    [][/\ state'.motion_pulses_total # state.motion_pulses_total
            => state'.motion_pulses_total = state.motion_pulses_total + 1
       /\ state'.motion_pulses_since_reset > state.motion_pulses_since_reset
            => state'.motion_pulses_since_reset = state.motion_pulses_since_reset + 1
       /\ state'.motion_pulses_since_arm > state.motion_pulses_since_arm
            => /\ state'.motion_pulses_since_arm = state.motion_pulses_since_arm + 1
               /\ state.armed
       /\ FirstPulseEmitted => state.armed /\ state.motion_pulses_since_arm = 0]_vars

-----------------------------------------------------------------------------
(* The three ways in: serial marker, socket command, button *)

\* The program as it was when the handler that thread t has returned from
\* began.
Before(t) ==
    [Cur EXCEPT !.state = frame[t].pre.state, !.mon = frame[t].pre.mon,
                !.ser_out = frame[t].pre.ser_out,
                !.frame = [u \in Threads |-> NoFrame]]

\* From there, the main loop handles the serial line that holds the marker.
ViaMarker(t, marker) ==
    Run(Enter(Before(t), "main", "marker", Word("", FALSE), <<Word(marker, FALSE)>>, "hcm"), "main")

\* From there, the control loop handles the request that spells the command.
ViaSocket(t, cmd) ==
    Run(Enter(Before(t), "ctl", "request", Word(cmd, FALSE), <<>>, "request"), "ctl")

\* Thread t's handler has left the state, the pulse window, the stall index
\* and the serial output as Z has them, and has emitted the events of Z's
\* thread u.
SameEffect(t, Z, u) ==
    /\ state = Z.state
    /\ mon.pulse_times = Z.mon.pulse_times
    /\ mon.stall_next_idx = Z.mon.stall_next_idx
    /\ ser_out = Z.ser_out
    /\ frame[t].ev = Z.frame[u].ev

SocketCommand(t) ==
    /\ frame[t].op = "request"
    /\ frame[t].cmd.w \in {"reset", "enable", "arm", "unarm", "disable"}

\* C34: a socket command reset|enable|arm|unarm|disable has the effect on the
\* state and the events emitted that the serial marker filmon:<command> has in
\* the same state; a short button press has the effect of the socket command
\* reset, a long press the effect of the socket command rearm.
C34_IngressEquivalent ==
    \A t \in Threads :
        (~env.conc /\ Returned(t)) =>
            /\ SocketCommand(t) =>
                    SameEffect(t, ViaMarker(t, "filmon:" \o frame[t].cmd.w), "main")
            /\ ShortPress(t) => SameEffect(t, ViaSocket(t, "reset"), "ctl")
            /\ LongPress(t) => SameEffect(t, ViaSocket(t, "rearm"), "ctl")

\* The socket command disable has acted in a latched state, as the marker
\* does there: the latch is kept.
C34_Witness ==
    /\ ~env.conc /\ Returned("ctl")
    /\ SocketCommand("ctl") /\ frame["ctl"].cmd.w = "disable"
    /\ frame["ctl"].pre.state.latched /\ frame["ctl"].pre.state.armed
    /\ state.latched /\ ~state.armed /\ frame["ctl"].ev = <<"disabled">>

-----------------------------------------------------------------------------
(* Failures of the serial write *)

LatchInProgress == \E t \in Threads : pc[t].at = "_trigger_pause"

\* C35: a latching action, once started, runs to completion: whenever latched
\* is true and no latching action is in progress, the M400 line and the pause
\* line of that latch have been written, whatever the serial write does.
C35_LatchRunsToCompletion ==
    (~env.conc /\ state.latched /\ ~LatchInProgress) =>
        /\ Len(ser_out) = 2 * hist.latches
        /\ Len(ser_out) >= 2
        /\ ser_out[Len(ser_out) - 1] = "M400"
        /\ ser_out[Len(ser_out)] = pause_gcode

\* C37: the main loop goes on taking lines and evaluating the jam condition
\* until the stop flag is set: no failure of a serial write inside jam
\* evaluation ends the loop while the daemon keeps running.
C37_LoopKeepsRunning ==
    pc["main"].at = "dead" => mon.stop_evt

-----------------------------------------------------------------------------
(* The pulse window under concurrent use *)

\* Thread t is inside _prune_pulses, past the emptiness test: it is about to
\* read or to remove the front of the window.
AtFront(t) == frame[t].prune \in {1, 2}

\* C36: the uses of the pulse window by the motion callback, by the pps
\* queries of the main loop and by reset/rearm exclude each other: no prune is
\* about to read or pop the front of a window that another thread has emptied
\* since the prune's emptiness test, and the window holds its timestamps in
\* ascending order.
C36_WindowExclusive ==
    /\ \A t \in Threads : AtFront(t) => mon.pulse_times # <<>>
    /\ \A i, j \in DOMAIN mon.pulse_times :
            i < j => mon.pulse_times[i] <= mon.pulse_times[j]

-----------------------------------------------------------------------------
(* last_trigger *)

\* C38: whenever no handler is in progress, latched implies that last_trigger
\* is jam or runout; last_trigger names the reason of the most recent
\* false->true transition of latched (it is empty before the first one), so no
\* reset, rearm, disable or other command clears or changes it.
C38_LastTriggerNamesLatch ==
    AllRest =>
        /\ state.latched => state.last_trigger \in {"jam", "runout"}
        /\ state.last_trigger = hist.reason
        /\ hist.latches = 0 <=> state.last_trigger = ""

-----------------------------------------------------------------------------
(* The order of the pulse counters *)

\* C39: whenever no handler is in progress, motion_pulses_since_arm <=
\* motion_pulses_since_reset <= motion_pulses_total, and motion_pulses_total
\* never decreases, for every interleaving of motion pulses with arm, reset
\* and rearm.
C39_CountersOrdered ==
    /\ [](AllRest =>
            /\ state.motion_pulses_since_arm <= state.motion_pulses_since_reset
            /\ state.motion_pulses_since_reset <= state.motion_pulses_total)
    /\ [][state'.motion_pulses_total >= state.motion_pulses_total]_vars

-----------------------------------------------------------------------------
(* The runout latch and the level of the reading *)

\* C40: runout latching is edge-triggered: arm applied while runout_asserted
\* is already true does not latch and writes nothing; a handler that latches
\* with reason runout is an accepted runout-asserted edge, and a jam
\* evaluation that latches does so with reason jam, its timeout elapsed.
C40_RunoutEdgeTriggered ==
    \A t \in Threads :
        (~env.conc /\ Returned(t)) =>
            /\ (ArmGiven(t) /\ frame[t].pre.state.runout_asserted
                    /\ ~frame[t].pre.state.latched)
                  => /\ ~state.latched
                     /\ state.runout_asserted
                     /\ ser_out = frame[t].pre.ser_out
            /\ (~frame[t].pre.state.latched /\ state.latched /\ state.last_trigger = "runout")
                  => t = "gpio" /\ AcceptedRunoutAsserted
            /\ (~frame[t].pre.state.latched /\ state.latched /\ frame[t].op = "jam")
                  => /\ state.last_trigger = "jam"
                     /\ now - frame[t].pre.state.last_pulse_ts >= jam_timeout_s

\* arm has been applied with the reading already true (its edge came while
\* unarmed): the monitor is armed, the reading is still true, nothing latched.
C40_Witness ==
    /\ ~env.conc /\ Returned("main") /\ ArmGiven("main")
    /\ frame["main"].pre.state.runout_asserted /\ ~frame["main"].pre.state.armed
    /\ ~frame["main"].pre.state.latched
    /\ state.armed /\ state.runout_asserted /\ ~state.latched
    /\ ser_out = <<>>

====
